---- MODULE Spec2Model ----
(***************************************************************************)
(* Model of the EuropePMC MCP server, src/src/europepmc_server/server.py:   *)
(*   - the client's request executor (EuropePMCClient._make_request) and    *)
(*     the rate limiter it shares between callers                           *)
(*     (asyncio_throttle.Throttler, constructed at server.py:89);           *)
(*   - the client's query builders and the tool handlers that call them;    *)
(*   - the author disambiguator (AuthorDisambiguator).                      *)
(*                                                                         *)
(* Time is a discrete clock.  The Throttler only ever compares             *)
(* "now - timestamp" with its period, so a timestamp is kept as its age    *)
(* (now - timestamp), saturated one tick above the period.                 *)
(*                                                                         *)
(* The similarity metrics of the disambiguator come from fuzzywuzzy; their *)
(* values are inputs, fixed for each normalized name during a behaviour.   *)
(***************************************************************************)
EXTENDS Integers, Sequences, FiniteSets, TLC

\* ---------------------------------------------------------------- constants
\* server.py:45
RATE_LIMIT_REQUESTS_PER_SECOND == 10
\* server.py:46
RATE_LIMIT_BURST == 20
\* server.py:50
MAX_RETRIES == 3

\* Clock ticks in one Throttler period (period=1.0 second, server.py:89).
PeriodTicks == 1
\* Logical calls one tracked caller makes, one after the other.
MaxCalls == 2
\* Calls of the other callers sharing the client, each needing one permit.
MaxOthers == 11
\* Burst scenario: calls issued together, and the ticks of one period when the
\* tick is the Throttler's retry_interval (0.01 s; period=1.0, server.py:89).
BurstCalls == 100
BurstPeriodTicks == 100

\* The tracked callers (concurrent asyncio tasks calling _make_request).
Callers == {1}

\* HTTP statuses a response may carry; raise_for_status() raises for >= 400.
OkStatus == 200
ErrorStatuses == {400, 404, 429, 500, 503}
\* Response bodies (response.text).
Bodies == {"b1", "b2"}
\* The status recorded for an attempt that failed with httpx.RequestError.
NetworkError == 0

VARIABLES
    task_logs,  \* Throttler._task_logs: ages of the permits granted, oldest first
    others,     \* calls of the other callers that still have to acquire a permit
    window,     \* history: ages of all permits granted within the last period
    pc,         \* pc[c]: where caller c's _make_request call is
    calls,      \* calls[c]: number of _make_request calls c has started
    attempt,    \* attempt[c]: the loop variable of "for attempt in range(MAX_RETRIES)"
    timer,      \* timer[c]: ticks left of c's asyncio.sleep(wait_time)
    response,   \* response[c]: status and text of the last response (e.response)
    result,     \* result[c]: what the call returned or raised
    headers,    \* headers[c]: the content-type header of the 2xx response
    value,      \* value[c]: the value the call returned
    cancelled,  \* history: a cancellation was delivered to c's call
    outcomes,   \* history: the status of every HTTP attempt of c's current call
    sent,       \* history: HTTP attempts sent by c's current call
    permits,    \* history: permits granted to c's current call
    sleeps,     \* history: the wait_time of every backoff sleep of c's current call
    granted,    \* burst scenario: permits granted so far
    elapsed,    \* burst scenario: ticks since the first permit was granted
    request,    \* the tool call or client call being served: its name and arguments
    toolPc,     \* where that call is: "idle", "client" (awaiting _make_request), "done"
    params,     \* the endpoint and query parameters handed to _make_request
    toolResult, \* the CallToolResult returned (or the outcome of the client call)
    author_search,  \* the threshold the author search disambiguated with and echoed
    handler_error,  \* history: the exception raised while the tool call was handled
    target_author,      \* the name the disambiguator is asked to match
    threshold,          \* the threshold it is called with
    scores,             \* the four fuzz metrics of the target and each normalized name
    candidate_authors,  \* match_authors: the candidate names
    publications,       \* disambiguate_author_publications: the publications
    matches,            \* what match_authors returned
    disambiguated,      \* what disambiguate_author_publications returned
    matchPc,            \* "idle", "matched", "disambiguated" or "rematched"
    rematch,            \* the same call made again: its threshold and what it returned
    written,            \* disambiguate_author_publications: the mappings it wrote to
    given_name,         \* normalize_author_name: the name given
    normalizations,     \* the results of normalizing it, and of normalizing the result
    raw_result,         \* _format_search_results: the search response given
    formatted           \* what it returned, or that it raised

vars == <<task_logs, others, window, pc, calls, attempt, timer, response, result,
          headers, value, cancelled, outcomes, sent, permits, sleeps, granted,
          elapsed, request, toolPc, params, toolResult, author_search, handler_error,
          target_author,
          threshold,
          scores, candidate_authors, publications, matches, disambiguated, matchPc,
          rematch, written, given_name, normalizations, raw_result, formatted>>

callerVars == <<pc, calls, attempt, timer, response, result, headers, value,
                cancelled, outcomes, sent, permits, sleeps>>
burstVars == <<granted, elapsed>>
toolVars == <<request, toolPc, params, toolResult, author_search, handler_error>>
matchVars == <<target_author, threshold, scores, candidate_authors, publications,
               matches, disambiguated, matchPc, rematch, written>>
formatVars == <<raw_result, formatted>>
pureVars == <<given_name, normalizations, formatVars>>

\* ------------------------------------------------------------------ helpers
RECURSIVE Pow2(_)
Pow2(k) == IF k = 0 THEN 1 ELSE 2 * Pow2(k - 1)

Min(a, b) == IF a < b THEN a ELSE b

Last(s) == s[Len(s)]

AllAre(s, v) == s # << >> /\ \A i \in 1..Len(s) : s[i] = v

NoResponse == [status |-> 0, body |-> ""]
NoResult == [kind |-> "none", status |-> 0, body |-> ""]

\* ------------------------------------------------------------------ strings
\* A string whose characters the code looks at is a sequence of characters.
UpperCase == <<"A", "B", "C", "D", "E", "F", "G", "H", "I", "J", "K", "L", "M", "N", "O", "P", "Q", "R", "S", "T", "U", "V", "W", "X", "Y", "Z">>
LowerCase == <<"a", "b", "c", "d", "e", "f", "g", "h", "i", "j", "k", "l", "m", "n", "o", "p", "q", "r", "s", "t", "u", "v", "w", "x", "y", "z">>

IsUpper(ch) == \E i \in DOMAIN UpperCase : UpperCase[i] = ch
IsLower(ch) == \E i \in DOMAIN LowerCase : LowerCase[i] = ch

\* str.lower(), character by character
LowerChar(ch) ==
    IF IsUpper(ch)
    THEN LowerCase[CHOOSE i \in DOMAIN UpperCase : UpperCase[i] = ch]
    ELSE ch
Lower(s) == [i \in 1..Len(s) |-> LowerChar(s[i])]

\* "sub in s"
Contains(s, sub) ==
    \E i \in 0..(Len(s) - Len(sub)) : SubSeq(s, i + 1, i + Len(sub)) = sub

\* The media types _make_request looks for.
APPLICATION_JSON == <<"a", "p", "p", "l", "i", "c", "a", "t", "i", "o", "n", "/", "j", "s", "o", "n">>
APPLICATION_XML == <<"a", "p", "p", "l", "i", "c", "a", "t", "i", "o", "n", "/", "x", "m", "l">>
TEXT_XML == <<"t", "e", "x", "t", "/", "x", "m", "l">>

\* Charset parameter as Europe PMC sends it.
CHARSET_UTF8 == <<";", "c", "h", "a", "r", "s", "e", "t", "=", "U", "T", "F", "-", "8">>
TEXT_PLAIN == <<"t", "e", "x", "t", "/", "p", "l", "a", "i", "n">>
TEXT_HTML == <<"t", "e", "x", "t", "/", "h", "t", "m", "l">>
TEXT_XML_CAPS == <<"T", "e", "x", "t", "/", "X", "M", "L">>

\* Values of the content-type header of a 2xx response; the empty string
\* stands for a response without the header (headers.get's default).
ContentTypeHeaders ==
    { << >>,
      APPLICATION_JSON, APPLICATION_JSON \o CHARSET_UTF8,
      APPLICATION_XML, TEXT_XML \o CHARSET_UTF8, TEXT_XML_CAPS,
      TEXT_PLAIN, TEXT_HTML \o CHARSET_UTF8 }

NoValue == [form |-> "none", content |-> "", content_type |-> << >>]

\* ---------------------------------------------------------------- Throttler
\* Throttler(rate_limit=RATE_LIMIT_REQUESTS_PER_SECOND, period=1.0)
ThrottlerRateBurst == RATE_LIMIT_BURST
ThrottlerRate == RATE_LIMIT_REQUESTS_PER_SECOND

\* Throttler.flush: drop from the left every entry older than the period.
FlushNothing(logs, period) == logs
RECURSIVE Flush(_, _)
Flush(logs, period) ==
    IF logs # << >> /\ Head(logs) > period
    THEN Flush(Tail(logs), period)
    ELSE logs

\* The test of Throttler.acquire's loop, after flush().
HasRoom(logs, period) == Len(Flush(logs, period)) < ThrottlerRate

\* self._task_logs.append(time.monotonic())
Grant(logs, period) == Append(Flush(logs, period), 0)

\* One tick of the clock: every age grows by one, saturating above the period.
Age(logs, period) == [i \in 1..Len(logs) |-> Min(logs[i] + 1, period + 1)]

\* History of the permits of the last period: entries leave when older than it.
AgeWindow(w, period) ==
    SelectSeq([i \in 1..Len(w) |-> w[i] + 1], LAMBDA a : a <= period)

\* ------------------------------------------------------------ _make_request
\* wait_time = 2 ** attempt (seconds)
WaitTime(k) == Pow2(k)

\* "for attempt in range(MAX_RETRIES)": the first value of the loop variable.
FirstAttemptStale(c) == attempt[c]
FirstAttempt(c) == 0

\* The synchronous part of "async with self.throttler": flush, test, then either
\* append and enter the retry loop (which sends attempt 0 at once) or sleep
\* retry_interval.  p and s are the call's permit and attempt counts so far.
AcquireStep(c, p, s) ==
    IF HasRoom(task_logs, PeriodTicks)
    THEN /\ task_logs' = Grant(task_logs, PeriodTicks)
         /\ window' = Append(window, 0)
         /\ permits' = [permits EXCEPT ![c] = p + 1]
         /\ attempt' = [attempt EXCEPT ![c] = FirstAttempt(c)]
         /\ sent' = [sent EXCEPT ![c] = s + 1]
         /\ pc' = [pc EXCEPT ![c] = "http"]
    ELSE /\ task_logs' = Flush(task_logs, PeriodTicks)
         /\ pc' = [pc EXCEPT ![c] = "throttle_sleep"]
         /\ permits' = [permits EXCEPT ![c] = p]
         /\ sent' = [sent EXCEPT ![c] = s]
         /\ UNCHANGED <<window, attempt>>

\* A _make_request call starts and runs to its first suspension.
StartRequest(c) ==
    /\ pc[c] \in {"idle", "returned", "failed"}
    /\ calls[c] < MaxCalls
    /\ calls' = [calls EXCEPT ![c] = @ + 1]
    /\ response' = [response EXCEPT ![c] = NoResponse]
    /\ result' = [result EXCEPT ![c] = NoResult]
    /\ headers' = [headers EXCEPT ![c] = << >>]
    /\ value' = [value EXCEPT ![c] = NoValue]
    /\ outcomes' = [outcomes EXCEPT ![c] = << >>]
    /\ sleeps' = [sleeps EXCEPT ![c] = << >>]
    /\ AcquireStep(c, 0, 0)
    /\ UNCHANGED <<others, timer, cancelled, burstVars, matchVars, pureVars>>

\* A caller other than the tool layer starts a _make_request call.
Begin(c) ==
    /\ StartRequest(c)
    /\ UNCHANGED toolVars

\* asyncio.sleep(retry_interval) of Throttler.acquire is over: test again.
\* retry_interval (0.01 s) is below the clock's resolution.
ThrottleRetry(c) ==
    /\ pc[c] = "throttle_sleep"
    /\ AcquireStep(c, permits[c], sent[c])
    /\ UNCHANGED <<others, calls, timer, response, result, headers, value,
                   cancelled, outcomes, sleeps, burstVars, toolVars, matchVars, pureVars>>

\* await asyncio.sleep(wait_time); continue
Backoff(c) ==
    /\ pc' = [pc EXCEPT ![c] = "backoff"]
    /\ timer' = [timer EXCEPT ![c] = WaitTime(attempt[c]) * PeriodTicks]
    /\ sleeps' = [sleeps EXCEPT ![c] = Append(@, WaitTime(attempt[c]))]
    /\ UNCHANGED result

\* raise EuropePMCError(...)
Raise(c, kind, status, body) ==
    /\ pc' = [pc EXCEPT ![c] = "failed"]
    /\ result' = [result EXCEPT ![c] = [kind |-> kind, status |-> status, body |-> body]]
    /\ UNCHANGED <<timer, sleeps>>

\* "if attempt < MAX_RETRIES - 1" of the 5xx and RequestError branches.
AttemptsRemainOffByOne(k) == k < MAX_RETRIES
AttemptsRemain(k) == k < MAX_RETRIES - 1

\* except httpx.HTTPStatusError: the 429 branch sleeps and continues whatever
\* the attempt index; the 5xx branch only while attempts remain; everything
\* else falls through to raise "HTTP {status_code}: {text}".
OnHTTPStatusErrorRetryAll(c, status, body) ==
    IF status = 429
    THEN Backoff(c)
    ELSE IF status >= 400 /\ AttemptsRemain(attempt[c])
         THEN Backoff(c)
         ELSE Raise(c, "http_status", status, body)
OnHTTPStatusError(c, status, body) ==
    IF status = 429
    THEN Backoff(c)
    ELSE IF status >= 500 /\ AttemptsRemain(attempt[c])
         THEN Backoff(c)
         ELSE Raise(c, "http_status", status, body)

\* except httpx.RequestError
OnRequestErrorUnguarded(c) == Backoff(c)
OnRequestErrorGivesUp(c) == Raise(c, "request_failed", 0, "")
OnRequestError(c) ==
    IF AttemptsRemain(attempt[c])
    THEN Backoff(c)
    ELSE Raise(c, "request_failed", 0, "")

\* content_type = response.headers.get("content-type", "").lower()
ContentTypeAsDeclared(header) == header
ContentType(header) == Lower(header)

\* The three branches on the content type: response.json(),
\* xmltodict.parse(response.text), or the raw text with its content type.
ParseResponse(header, body) ==
    LET content_type == ContentType(header)
    IN  IF Contains(content_type, APPLICATION_JSON)
        THEN [form |-> "json", content |-> body, content_type |-> << >>]
        ELSE IF \/ Contains(content_type, APPLICATION_XML)
                \/ Contains(content_type, TEXT_XML)
             THEN [form |-> "xml", content |-> body, content_type |-> << >>]
             ELSE [form |-> "raw", content |-> body, content_type |-> content_type]

\* The response of the HTTP attempt in flight arrives with a 2xx status, the
\* given body and the given content-type header.  "valid" tells whether the
\* body is well-formed for its decoder: the error of response.json() or
\* xmltodict.parse() is caught by neither except clause and leaves
\* _make_request.
RespondWith(c, body, header, valid) ==
    /\ pc[c] = "http"
    /\ LET parsed == ParseResponse(header, body)
       IN  /\ response' = [response EXCEPT ![c] = [status |-> OkStatus, body |-> body]]
           /\ headers' = [headers EXCEPT ![c] = header]
           /\ IF parsed.form = "raw" \/ valid
              THEN /\ result' = [result EXCEPT ![c] =
                                   [kind |-> "ok", status |-> OkStatus, body |-> body]]
                   /\ value' = [value EXCEPT ![c] = parsed]
                   /\ pc' = [pc EXCEPT ![c] = "returned"]
              ELSE /\ result' = [result EXCEPT ![c] =
                                   [kind |-> "decode_error", status |-> OkStatus,
                                    body |-> body]]
                   /\ value' = [value EXCEPT ![c] = NoValue]
                   /\ pc' = [pc EXCEPT ![c] = "failed"]
    /\ outcomes' = [outcomes EXCEPT ![c] = Append(@, OkStatus)]
    /\ UNCHANGED <<task_logs, others, window, calls, attempt, timer, cancelled,
                   sent, permits, sleeps, burstVars, toolVars, matchVars, pureVars>>

\* The response of the HTTP attempt in flight arrives with a 2xx status.
RespondOk(c) ==
    \E body \in Bodies, header \in ContentTypeHeaders, valid \in BOOLEAN :
        RespondWith(c, body, header, valid)

\* The service answers with well-formed JSON, as Europe PMC does for format=json.
RespondJson(c) ==
    \E body \in Bodies : RespondWith(c, body, APPLICATION_JSON \o CHARSET_UTF8, TRUE)

\* The response arrives with an error status: raise_for_status() raises.
RespondError(c) ==
    /\ pc[c] = "http"
    /\ \E status \in ErrorStatuses, body \in Bodies :
         /\ response' = [response EXCEPT ![c] = [status |-> status, body |-> body]]
         /\ outcomes' = [outcomes EXCEPT ![c] = Append(@, status)]
         /\ OnHTTPStatusError(c, status, body)
    /\ UNCHANGED <<task_logs, others, window, calls, attempt, headers, value,
                   cancelled, sent, permits, burstVars, toolVars, matchVars, pureVars>>

\* The HTTP attempt fails at network level (httpx.RequestError).
RespondNetworkError(c) ==
    /\ pc[c] = "http"
    /\ response' = [response EXCEPT ![c] = NoResponse]
    /\ outcomes' = [outcomes EXCEPT ![c] = Append(@, NetworkError)]
    /\ OnRequestError(c)
    /\ UNCHANGED <<task_logs, others, window, calls, attempt, headers, value,
                   cancelled, sent, permits, burstVars, toolVars, matchVars, pureVars>>

\* The backoff sleep is over: "continue" takes the next value of the loop
\* variable and sends the next attempt, or the loop is exhausted and the
\* statement after it raises "Failed after MAX_RETRIES attempts".
BackoffWakeSleepsOn(c) ==
    /\ pc[c] = "backoff"
    /\ timer[c] = 0
    /\ IF attempt[c] + 1 < MAX_RETRIES
       THEN /\ attempt' = [attempt EXCEPT ![c] = @ + 1]
            /\ sent' = [sent EXCEPT ![c] = @ + 1]
            /\ pc' = [pc EXCEPT ![c] = "http"]
            /\ UNCHANGED timer
       ELSE /\ timer' = [timer EXCEPT ![c] = WaitTime(attempt[c]) * PeriodTicks]
            /\ UNCHANGED <<pc, attempt, sent>>
    /\ UNCHANGED <<task_logs, others, window, calls, response, result, headers,
                   value, cancelled, outcomes, permits, sleeps, burstVars, toolVars, matchVars, pureVars>>
BackoffWake(c) ==
    /\ pc[c] = "backoff"
    /\ timer[c] = 0
    /\ IF attempt[c] + 1 < MAX_RETRIES
       THEN /\ attempt' = [attempt EXCEPT ![c] = @ + 1]
            /\ sent' = [sent EXCEPT ![c] = @ + 1]
            /\ pc' = [pc EXCEPT ![c] = "http"]
            /\ UNCHANGED result
       ELSE /\ pc' = [pc EXCEPT ![c] = "failed"]
            /\ result' = [result EXCEPT ![c] =
                            [kind |-> "failed_after", status |-> 0, body |-> ""]]
            /\ UNCHANGED <<attempt, sent>>
    /\ UNCHANGED <<task_logs, others, window, calls, timer, response, headers,
                   value, cancelled, outcomes, permits, sleeps, burstVars, toolVars, matchVars, pureVars>>

\* What the call does with asyncio.CancelledError, raised at the await it is
\* suspended in.  CancelledError is a BaseException: neither
\* "except httpx.HTTPStatusError" nor "except httpx.RequestError" catches it,
\* and Throttler.acquire has no handler, so it leaves _make_request.
OnCancelledSwallowed(c) ==
    /\ IF pc[c] = "http" /\ attempt[c] + 1 < MAX_RETRIES
       THEN /\ pc' = [pc EXCEPT ![c] = "http"]
            /\ attempt' = [attempt EXCEPT ![c] = @ + 1]
            /\ sent' = [sent EXCEPT ![c] = @ + 1]
            /\ result' = result
       ELSE /\ pc' = [pc EXCEPT ![c] = "cancelled"]
            /\ result' = [result EXCEPT ![c] =
                            [kind |-> "cancelled", status |-> 0, body |-> pc[c]]]
            /\ UNCHANGED <<attempt, sent>>
    /\ UNCHANGED <<task_logs, window, permits, sleeps>>
OnCancelled(c) ==
    /\ pc' = [pc EXCEPT ![c] = "cancelled"]
    /\ result' = [result EXCEPT ![c] = [kind |-> "cancelled", status |-> 0, body |-> pc[c]]]
    /\ UNCHANGED <<task_logs, window, attempt, sent, permits, sleeps>>

\* The caller's task is cancelled while the call is suspended.
Cancel(c) ==
    /\ pc[c] \in {"throttle_sleep", "http", "backoff"}
    /\ cancelled' = [cancelled EXCEPT ![c] = TRUE]
    /\ OnCancelled(c)
    /\ UNCHANGED <<others, calls, timer, response, headers, value, outcomes,
                   burstVars, toolVars, matchVars, pureVars>>

\* Another caller of the same client passes "async with self.throttler".
OtherAcquire ==
    /\ others > 0
    /\ HasRoom(task_logs, PeriodTicks)
    /\ task_logs' = Grant(task_logs, PeriodTicks)
    /\ window' = Append(window, 0)
    /\ others' = others - 1
    /\ UNCHANGED <<callerVars, burstVars, toolVars, matchVars, pureVars>>

\* Appending n permits one after the other.
RECURSIVE GrantMany(_, _, _)
GrantMany(logs, period, n) ==
    IF n = 0 THEN logs ELSE GrantMany(Grant(logs, period), period, n - 1)

\* Other callers of the same client, started together, take every permit the
\* Throttler has left.
OtherBurst ==
    /\ HasRoom(task_logs, PeriodTicks)
    /\ LET n == ThrottlerRate - Len(Flush(task_logs, PeriodTicks))
       IN  /\ task_logs' = GrantMany(task_logs, PeriodTicks, n)
           /\ window' = window \o [i \in 1..n |-> 0]
    /\ UNCHANGED <<others, callerVars, burstVars, toolVars, matchVars, pureVars>>

\* The clock advances by one tick.
Tick ==
    /\ task_logs' = Age(task_logs, PeriodTicks)
    /\ window' = AgeWindow(window, PeriodTicks)
    /\ timer' = [c \in Callers |-> IF timer[c] > 0 THEN timer[c] - 1 ELSE 0]
    /\ UNCHANGED <<others, pc, calls, attempt, response, result, headers, value,
                   cancelled, outcomes, sent, permits, sleeps, burstVars, toolVars, matchVars, pureVars>>

\* ------------------------------------------------------------ query builders
\* The page size the tools and the client default to, and the service maximum
\* of "pageSize": min(page_size, 1000).
DEFAULT_PAGE_SIZE == 25
MAX_PAGE_SIZE == 1000

\* Argument values.  A string is falsy ("not s") exactly when it is empty.
Falsy(s) == s = ""
Queries == {"", "crispr"}
Sources == {"", "MED", "PMC"}
Identifiers == {"", "12345"}
AuthorNames == {"", " ", "Jane Doe"}
PageSizes == {1, 25, 500, 501, 1000, 1001}
ThresholdArguments == {70}
ArgumentKeys ==
    {"query", "source", "identifier", "author_name", "page_size",
     "disambiguation_threshold"}

\* The arguments of a call: "given" holds the keys that are present, and a key
\* that is absent carries a filler that is never read.
Arguments(keys) ==
    { a \in [given : SUBSET keys, query : Queries, source : Sources,
             identifier : Identifiers, author_name : AuthorNames,
             page_size : PageSizes \cup {0},
             disambiguation_threshold : ThresholdArguments \cup {0}] :
        /\ "query" \notin a.given => a.query = ""
        /\ "source" \notin a.given => a.source = ""
        /\ "identifier" \notin a.given => a.identifier = ""
        /\ "author_name" \notin a.given => a.author_name = ""
        /\ "page_size" \in a.given <=> a.page_size # 0
        /\ "disambiguation_threshold" \in a.given <=> a.disambiguation_threshold # 0 }

\* args.get(key, default)
ArgGet(args, key, default) == IF key \in args.given THEN args[key] ELSE default

NoArguments ==
    [given |-> {}, query |-> "", source |-> "", identifier |-> "",
     author_name |-> "", page_size |-> 0, disambiguation_threshold |-> 0]
NoRequest == [entry |-> "none", name |-> "", arguments |-> NoArguments]
NoParams == [endpoint |-> << >>, query |-> << >>, has_page_size |-> FALSE, pageSize |-> 0]
NoToolResult == [isError |-> FALSE, text |-> ""]
NoAuthorSearch == [threshold |-> 0, echoed |-> 0]

\* The defaults of the disambiguation threshold: in the input schema of
\* search_author_publications (server.py:550), in its handler (816) and in
\* the signatures of the disambiguator (304, 349).
SCHEMA_DEFAULT_THRESHOLD == 80
HANDLER_DEFAULT_THRESHOLD == 90
DISAMBIGUATOR_DEFAULT_THRESHOLD == 80

\* threshold = args.get("disambiguation_threshold", 90)
DisambiguationThreshold(args) ==
    ArgGet(args, "disambiguation_threshold", HANDLER_DEFAULT_THRESHOLD)

\* "pageSize": min(page_size, 1000)
ClampPageSizeNot(page_size) == page_size
ClampPageSize(page_size) == Min(page_size, MAX_PAGE_SIZE)

\* The query builders of EuropePMCClient: the endpoint and the parameters each
\* hands to _make_request.
search_publications(query, page_size) ==
    [endpoint |-> <<"search">>, query |-> query, has_page_size |-> TRUE,
     pageSize |-> ClampPageSize(page_size)]
get_publication_details(source, identifier) ==
    [endpoint |-> <<source, identifier>>, query |-> << >>, has_page_size |-> FALSE,
     pageSize |-> 0]
get_citations(source, identifier, page_size) ==
    [endpoint |-> <<source, identifier, "citations">>, query |-> << >>,
     has_page_size |-> TRUE, pageSize |-> ClampPageSize(page_size)]
get_references(source, identifier, page_size) ==
    [endpoint |-> <<source, identifier, "references">>, query |-> << >>,
     has_page_size |-> TRUE, pageSize |-> ClampPageSize(page_size)]
get_database_links(source, identifier) ==
    [endpoint |-> <<source, identifier, "databaseLinks">>, query |-> << >>,
     has_page_size |-> FALSE, pageSize |-> 0]
get_full_text_xml(source, identifier) ==
    [endpoint |-> <<source, identifier, "fullTextXML">>, query |-> << >>,
     has_page_size |-> FALSE, pageSize |-> 0]

\* ------------------------------------------------------------- tool handlers
ToolNames ==
    {"search_publications", "get_publication_details", "get_citations",
     "get_references", "search_author_publications", "get_database_links",
     "get_full_text", "advanced_search"}

\* What a handler does before its first await: an error result, or the client
\* call it makes.
Reject(text) == [rejected |-> TRUE, text |-> text, params |-> NoParams]
Accept(p) == [rejected |-> FALSE, text |-> "", params |-> p]

\* "if not source or not identifier"
SourceOrIdentifierMissingNot(args) == FALSE
SourceOrIdentifierMissing(args) ==
    Falsy(ArgGet(args, "source", "")) \/ Falsy(ArgGet(args, "identifier", ""))

_search_publications(args) ==
    IF Falsy(ArgGet(args, "query", ""))
    THEN Reject("Error: Query parameter is required")
    ELSE Accept(search_publications(<<ArgGet(args, "query", "")>>,
                                    ArgGet(args, "page_size", DEFAULT_PAGE_SIZE)))

_get_publication_details(args) ==
    IF SourceOrIdentifierMissing(args)
    THEN Reject("Error: Source and identifier are required")
    ELSE Accept(get_publication_details(args.source, args.identifier))

_get_citations(args) ==
    IF SourceOrIdentifierMissing(args)
    THEN Reject("Error: Source and identifier are required")
    ELSE Accept(get_citations(args.source, args.identifier,
                              ArgGet(args, "page_size", DEFAULT_PAGE_SIZE)))

_get_references(args) ==
    IF SourceOrIdentifierMissing(args)
    THEN Reject("Error: Source and identifier are required")
    ELSE Accept(get_references(args.source, args.identifier,
                               ArgGet(args, "page_size", DEFAULT_PAGE_SIZE)))

\* The author search asks for page_size * 2 results to disambiguate.
_search_author_publications(args) ==
    IF Falsy(ArgGet(args, "author_name", ""))
    THEN Reject("Error: Author name is required")
    ELSE Accept(search_publications(<<"AUTH", ArgGet(args, "author_name", "")>>,
                                    ArgGet(args, "page_size", DEFAULT_PAGE_SIZE) * 2))

_get_database_links(args) ==
    IF SourceOrIdentifierMissing(args)
    THEN Reject("Error: Source and identifier are required")
    ELSE Accept(get_database_links(args.source, args.identifier))

_get_full_text_any_source(args) ==
    IF SourceOrIdentifierMissing(args)
    THEN Reject("Error: Source and identifier are required")
    ELSE Accept(get_full_text_xml(args.source, args.identifier))
_get_full_text(args) ==
    IF SourceOrIdentifierMissing(args)
    THEN Reject("Error: Source and identifier are required")
    ELSE IF args.source # "PMC"
         THEN Reject("Error: Full text is only available for PMC articles")
         ELSE Accept(get_full_text_xml(args.source, args.identifier))

_advanced_search(args) ==
    IF Falsy(ArgGet(args, "query", ""))
    THEN Reject("Error: Query parameter is required")
    ELSE Accept(search_publications(<<ArgGet(args, "query", "")>>,
                                    ArgGet(args, "page_size", DEFAULT_PAGE_SIZE)))

\* The dispatch of handle_call_tool; an unknown name raises ValueError, which
\* its "except Exception" turns into an error result.
handle_call_tool_any_name(name, args) ==
    CASE name = "get_publication_details" -> _get_publication_details(args)
      [] name = "get_citations" -> _get_citations(args)
      [] name = "get_references" -> _get_references(args)
      [] name = "search_author_publications" -> _search_author_publications(args)
      [] name = "get_database_links" -> _get_database_links(args)
      [] name = "get_full_text" -> _get_full_text(args)
      [] name = "advanced_search" -> _advanced_search(args)
      [] OTHER -> _search_publications(args)
handle_call_tool(name, args) ==
    CASE name = "search_publications" -> _search_publications(args)
      [] name = "get_publication_details" -> _get_publication_details(args)
      [] name = "get_citations" -> _get_citations(args)
      [] name = "get_references" -> _get_references(args)
      [] name = "search_author_publications" -> _search_author_publications(args)
      [] name = "get_database_links" -> _get_database_links(args)
      [] name = "get_full_text" -> _get_full_text(args)
      [] name = "advanced_search" -> _advanced_search(args)
      [] OTHER -> Reject("Error: Unknown tool")

\* The arguments each tool reads.
ToolKeys(name) ==
    CASE name \in {"search_publications", "advanced_search"} -> {"query", "page_size"}
      [] name = "search_author_publications" ->
            {"author_name", "page_size", "disambiguation_threshold"}
      [] name \in {"get_citations", "get_references"} ->
            {"source", "identifier", "page_size"}
      [] OTHER -> {"source", "identifier"}

\* A tool call arrives: the handler runs to its first await, which is either
\* its return of an error result or the start of the client's _make_request.
CallTool(c) ==
    /\ toolPc = "idle"
    /\ pc[c] = "idle"
    /\ \E name \in ToolNames \cup {"unknown_tool"} :
         \E args \in Arguments(ToolKeys(name)) :
            LET handled == handle_call_tool(name, args)
            IN  /\ request' = [entry |-> "tool", name |-> name, arguments |-> args]
                /\ params' = handled.params
                /\ author_search' = author_search
                /\ handler_error' = IF name \in ToolNames THEN "none" ELSE "ValueError"
                /\ IF handled.rejected
                   THEN /\ toolResult' = [isError |-> TRUE, text |-> handled.text]
                        /\ toolPc' = "done"
                        /\ UNCHANGED <<task_logs, others, window, callerVars, burstVars,
                                       matchVars, pureVars>>
                   ELSE /\ toolResult' = NoToolResult
                        /\ toolPc' = "client"
                        /\ StartRequest(c)

\* The full-text query builder is called directly, with both arguments.
CallClient(c) ==
    /\ toolPc = "idle"
    /\ pc[c] = "idle"
    /\ \E source \in Sources \ {""}, identifier \in Identifiers \ {""} :
         /\ request' = [entry |-> "client", name |-> "get_full_text_xml",
                        arguments |-> [NoArguments EXCEPT
                                         !.given = {"source", "identifier"},
                                         !.source = source,
                                         !.identifier = identifier]]
         /\ params' = get_full_text_xml(source, identifier)
    /\ toolResult' = NoToolResult
    /\ UNCHANGED <<author_search, handler_error>>
    /\ toolPc' = "client"
    /\ StartRequest(c)

\* _make_request has returned or raised: the handler returns the result, or
\* its "except Exception" returns an error result; a client call made directly
\* hands the value or the exception to its caller.  The author search
\* disambiguates the publications returned with its threshold and echoes the
\* threshold as "disambiguation_threshold".  A handler's own processing of
\* the value (formatting, json.dumps) may raise as well, inside the same try.
ToolReturn(c) ==
    /\ toolPc = "client"
    /\ pc[c] \in {"returned", "failed"}
    /\ \E processed \in BOOLEAN :
         /\ (pc[c] = "failed" \/ request.entry = "client") => processed
         /\ toolResult' =
               IF pc[c] = "failed"
               THEN [isError |-> TRUE, text |-> result[c].kind]
               ELSE IF processed
                    THEN [isError |-> FALSE, text |-> "result"]
                    ELSE [isError |-> TRUE, text |-> "processing_error"]
         /\ handler_error' =
               IF pc[c] = "failed" THEN "EuropePMCError"
               ELSE IF processed THEN "none" ELSE "processing_error"
         /\ author_search' =
               IF /\ request.entry = "tool"
                  /\ request.name = "search_author_publications"
                  /\ pc[c] = "returned"
                  /\ processed
               THEN [threshold |-> DisambiguationThreshold(request.arguments),
                     echoed |-> DisambiguationThreshold(request.arguments)]
               ELSE author_search
    /\ toolPc' = "done"
    /\ UNCHANGED <<task_logs, others, window, callerVars, burstVars, request, params,
                   matchVars, pureVars>>

ToolIdle ==
    /\ request = NoRequest
    /\ toolPc = "idle"
    /\ params = NoParams
    /\ toolResult = NoToolResult
    /\ author_search = NoAuthorSearch
    /\ handler_error = "none"

\* ------------------------------------------------------- AuthorDisambiguator
\* "10 if target_initials == candidate_initials else 0" and
\* "min(final_score, 100)".
INITIALS_BONUS == 10
MAX_SCORE == 100

\* Longest candidate list and publication list handed to the disambiguator.
MaxCandidates == 2
MaxPublications == 2

\* Author names, as sequences of characters.
JO_S == <<"J", "o", " ", "S">>
DR_JO_S == <<"D", "r", " ", "J", "o", " ", "S">>
J_S == <<"j", " ", "s">>
BLANK == <<" ", " ">>
EMPTY == << >>

TargetNames == {JO_S, BLANK, EMPTY}
CandidateNames == {JO_S, DR_JO_S, J_S}
Thresholds == {80, 100, 105}

\* Sequences over S of length at most n.
Lists(S, n) == UNION {[1..k -> S] : k \in 0..n}

IsSpace(ch) == ch = " "
IsAlpha(ch) == IsUpper(ch) \/ IsLower(ch)

\* str.upper(), for one character
UpperChar(ch) ==
    IF IsLower(ch)
    THEN UpperCase[CHOOSE i \in DOMAIN LowerCase : LowerCase[i] = ch]
    ELSE ch

\* str.split(): the maximal runs of non-whitespace characters.
RECURSIVE SplitWords(_, _)
SplitWords(s, word) ==
    IF s = << >>
    THEN IF word = << >> THEN << >> ELSE <<word>>
    ELSE IF IsSpace(Head(s))
         THEN IF word = << >>
              THEN SplitWords(Tail(s), << >>)
              ELSE <<word>> \o SplitWords(Tail(s), << >>)
         ELSE SplitWords(Tail(s), Append(word, Head(s)))
Split(s) == SplitWords(s, << >>)

\* " ".join(words)
RECURSIVE Join(_)
Join(words) ==
    IF words = << >> THEN << >>
    ELSE IF Len(words) = 1 THEN Head(words)
         ELSE Head(words) \o <<" ">> \o Join(Tail(words))

\* suffixes = ["jr", "sr", "ii", "iii", "iv", "phd", "md", "dr"]
Suffixes ==
    { <<"j", "r">>, <<"s", "r">>, <<"i", "i">>, <<"i", "i", "i">>, <<"i", "v">>,
      <<"p", "h", "d">>, <<"m", "d">>, <<"d", "r">> }

\* AuthorDisambiguator.normalize_author_name
normalize_filter_before_lower(n) ==
    Lower(Join(SelectSeq(Split(n), LAMBDA w : w \notin Suffixes)))
normalize_author_name(n) ==
    Join(SelectSeq(Split(Lower(n)), LAMBDA w : w \notin Suffixes))

\* AuthorDisambiguator.extract_initials: the first character of every word
\* that starts with a letter, in upper case.
extract_initials(n) ==
    LET words == SelectSeq(Split(n), LAMBDA w : IsAlpha(w[1]))
    IN  [i \in 1..Len(words) |-> UpperChar(words[i][1])]

\* The results of fuzz.ratio, fuzz.partial_ratio, fuzz.token_sort_ratio and
\* fuzz.token_set_ratio for one pair of normalized names: integers in 0..100.
MetricTuples ==
    { <<0, 0, 0, 0>>, <<55, 74, 60, 66>>, <<85, 95, 90, 92>>, <<100, 100, 100, 100>> }

Max(a, b) == IF a > b THEN a ELSE b

\* Stable sort of <<item, key>> pairs by key, largest first:
\* list.sort(key=..., reverse=True).
RECURSIVE InsertByKeyUnstable(_, _)
InsertByKeyUnstable(pair, sorted) ==
    IF sorted = << >> THEN <<pair>>
    ELSE IF Head(sorted)[2] > pair[2]
         THEN <<Head(sorted)>> \o InsertByKeyUnstable(pair, Tail(sorted))
         ELSE <<pair>> \o sorted
RECURSIVE InsertByKey(_, _)
InsertByKey(pair, sorted) ==
    IF sorted = << >> THEN <<pair>>
    ELSE IF Head(sorted)[2] >= pair[2]
         THEN <<Head(sorted)>> \o InsertByKey(pair, Tail(sorted))
         ELSE <<pair>> \o sorted
RECURSIVE SortInto(_, _)
SortInto(pairs, sorted) ==
    IF pairs = << >> THEN sorted
    ELSE SortInto(Tail(pairs), InsertByKey(Head(pairs), sorted))
SortByKey(pairs) == SortInto(pairs, << >>)

\* The names the similarity metrics are computed on.
NormalizedCandidates == {normalize_author_name(n) : n \in CandidateNames}

\* initials_bonus = 10 if target_initials == candidate_initials else 0
InitialsBonusOnNormalized(target, candidate) ==
    IF extract_initials(normalize_author_name(target))
         = extract_initials(normalize_author_name(candidate))
    THEN INITIALS_BONUS ELSE 0
InitialsBonus(target, candidate) ==
    IF extract_initials(target) = extract_initials(candidate)
    THEN INITIALS_BONUS ELSE 0

\* final_score = max(the four metrics) + initials_bonus
FinalScore(target, candidate) ==
    LET m == scores[normalize_author_name(candidate)]
    IN  Max(Max(m[1], m[2]), Max(m[3], m[4])) + InitialsBonus(target, candidate)

\* "if final_score >= threshold"
QualifiesBelow(final_score, thr) == final_score <= thr
Qualifies(final_score, thr) == final_score >= thr

\* "min(final_score, 100)", the score appended with the candidate
ReportedUnclipped(final_score) == final_score
Reported(final_score) == Min(final_score, MAX_SCORE)

\* AuthorDisambiguator.match_authors: the (candidate, score) pairs of the
\* qualifying candidates, sorted by score, largest first.
match_authors(target, candidates, thr) ==
    LET qualifying ==
            SelectSeq(candidates, LAMBDA cand : Qualifies(FinalScore(target, cand), thr))
    IN  SortByKey([i \in 1..Len(qualifying) |->
                     <<qualifying[i], Reported(FinalScore(target, qualifying[i]))>>])

\* Publications as the search returns them: "authorList" holds a list of author
\* entries or a single entry, an entry may lack "fullName", and "authors" is
\* an alternative field holding a list of names or one name.
NoAuthorList == [kind |-> "absent", entries |-> << >>]
NoAuthors == [kind |-> "absent", names |-> << >>]
Entry(n) == [hasFullName |-> TRUE, fullName |-> n]
EntryWithoutName == [hasFullName |-> FALSE, fullName |-> EMPTY]

PublicationUniverse ==
    { [id |-> 1, authorList |-> [kind |-> "list", entries |-> <<Entry(J_S), Entry(JO_S)>>],
       authors |-> NoAuthors],
      [id |-> 2, authorList |-> [kind |-> "dict", entries |-> <<Entry(DR_JO_S)>>],
       authors |-> NoAuthors],
      [id |-> 3, authorList |-> NoAuthorList,
       authors |-> [kind |-> "list", names |-> <<DR_JO_S, J_S>>]],
      [id |-> 4, authorList |-> [kind |-> "list", entries |-> <<EntryWithoutName>>],
       authors |-> [kind |-> "str", names |-> <<J_S>>]],
      [id |-> 5, authorList |-> NoAuthorList, authors |-> NoAuthors] }

\* The author names disambiguate_author_publications extracts from one
\* publication: the fullName of the authorList entries, else the "authors".
PubAuthors(pub) ==
    LET named == SelectSeq(pub.authorList.entries, LAMBDA e : e.hasFullName)
        pub_authors == [i \in 1..Len(named) |-> named[i].fullName]
    IN  IF pub_authors # << >>
        THEN pub_authors
        ELSE pub.authors.names

\* AuthorDisambiguator.disambiguate_author_publications: a copy of every
\* publication with at least one match, carrying author_matches and
\* best_match_score = matches[0][1], sorted by best_match_score.
disambiguate_author_publications(author_name, pubs, thr) ==
    LET kept == SelectSeq(pubs, LAMBDA pub :
                    /\ PubAuthors(pub) # << >>
                    /\ match_authors(author_name, PubAuthors(pub), thr) # << >>)
        Copy(pub) ==
            LET found == match_authors(author_name, PubAuthors(pub), thr)
            IN  [pub |-> pub, author_matches |-> found, best_match_score |-> found[1][2]]
        pairs == [i \in 1..Len(kept) |-> <<Copy(kept[i]), Copy(kept[i]).best_match_score>>]
        sorted == SortByKey(pairs)
    IN  [i \in 1..Len(sorted) |-> sorted[i][1]]

\* dict.copy(): the copy of the i-th of n input mappings is a mapping of its
\* own, numbered after the n input mappings.
pub_alias(i, n) == i
pub_copy(i, n) == n + i

\* The mappings disambiguate_author_publications sets "author_matches" and
\* "best_match_score" on: the copy of every publication with a match.
WrittenMappings(author_name, pubs, thr) ==
    {pub_copy(i, Len(pubs)) : i \in {j \in 1..Len(pubs) :
        /\ PubAuthors(pubs[j]) # << >>
        /\ match_authors(author_name, PubAuthors(pubs[j]), thr) # << >>}}

\* No second call was made.
NoRematch == [threshold |-> 0, matches |-> << >>, disambiguated |-> << >>]

\* Everything but the disambiguator's variables.
clientVars == <<task_logs, others, window, callerVars, burstVars, toolVars>>

\* match_authors is called with a list of candidate names.
CallMatchAuthors ==
    /\ matchPc = "idle"
    /\ \E candidates \in Lists(CandidateNames, MaxCandidates) :
         /\ candidate_authors' = candidates
         /\ matches' = match_authors(target_author, candidates, threshold)
    /\ matchPc' = "matched"
    /\ UNCHANGED <<clientVars, target_author, threshold, scores, publications,
                   disambiguated, rematch, written, pureVars>>

\* disambiguate_author_publications is called with a list of publications.
CallDisambiguate ==
    /\ matchPc = "idle"
    /\ \E pubs \in Lists(PublicationUniverse, MaxPublications) :
         /\ publications' = pubs
         /\ disambiguated' = disambiguate_author_publications(target_author, pubs, threshold)
         /\ written' = WrittenMappings(target_author, pubs, threshold)
    /\ matchPc' = "disambiguated"
    /\ UNCHANGED <<clientVars, target_author, threshold, scores, candidate_authors,
                   matches, rematch, pureVars>>

\* match_authors is called again with the same target and candidates and a
\* larger threshold (at the same threshold it returns the same list).
RecallMatchAuthors ==
    /\ matchPc = "matched"
    /\ \E t2 \in Thresholds :
         /\ threshold < t2
         /\ rematch' = [threshold |-> t2,
                        matches |-> match_authors(target_author, candidate_authors, t2),
                        disambiguated |-> << >>]
    /\ matchPc' = "rematched"
    /\ UNCHANGED <<clientVars, target_author, threshold, scores, candidate_authors,
                   publications, matches, disambiguated, written, pureVars>>

\* disambiguate_author_publications is called again with the same target and
\* publications and a larger threshold.
RecallDisambiguate ==
    /\ matchPc = "disambiguated"
    /\ \E t2 \in Thresholds :
         /\ threshold < t2
         /\ rematch' = [threshold |-> t2,
                        matches |-> << >>,
                        disambiguated |->
                            disambiguate_author_publications(target_author, publications, t2)]
    /\ matchPc' = "rematched"
    /\ UNCHANGED <<clientVars, target_author, threshold, scores, candidate_authors,
                   publications, matches, disambiguated, written, pureVars>>

\* Longest name given to normalize_author_name, and the characters of the names.
MaxNameLen == 4
NameAlphabet == {" ", "D", "d", "r", "x"}

\* normalize_author_name is applied to the name, then to its own result.
Normalize ==
    /\ Len(normalizations) < 2
    /\ normalizations' =
          Append(normalizations,
                 normalize_author_name(IF normalizations = << >>
                                       THEN given_name
                                       ELSE Last(normalizations)))
    /\ UNCHANGED <<clientVars, matchVars, given_name, formatVars>>

\* A sub-structure of the remote response: absent, a single object, or a list
\* of objects.
Absent == [kind |-> "absent", items |-> << >>]
Single(x) == [kind |-> "single", items |-> <<x>>]
ListOf(xs) == [kind |-> "list", items |-> xs]

\* Longest result list of a search response.
MaxResults == 1

SubStructures == {Absent, Single("x"), ListOf(<<"x">>), ListOf(<<"x", "y">>)}
RawPublications ==
    [authorList : SubStructures, keywordList : SubStructures,
     meshHeadingList : SubStructures]
RawResults ==
    [resultList : {Absent} \cup {Single(pub) : pub \in RawPublications}
                   \cup {ListOf(pubs) : pubs \in Lists(RawPublications, MaxResults)}]

\* "if isinstance(data, dict): data = [data]"
CoerceToList(data) ==
    IF data.kind = "single" THEN ListOf(data.items) ELSE data

\* _extract_authors and _extract_mesh_terms: a list with one element for each
\* object of the coerced sub-structure, empty when it is absent.
_extract_authors(publication) == ListOf(CoerceToList(publication.authorList).items)
_extract_mesh_terms(publication) == ListOf(CoerceToList(publication.meshHeadingList).items)

\* "keywords": pub.get("keywordList", {}).get("keyword", []) if ... else []
Keywords(pub) ==
    IF pub.keywordList.kind = "absent" THEN ListOf(<< >>) ELSE pub.keywordList

\* _format_search_results: one formatted publication for each element of
\* result["resultList"]["result"].  Iterating over a single object yields its
\* keys, strings, and pub.get on a string raises AttributeError.
NotFormatted == [kind |-> "none", publications |-> << >>]
Raised == [kind |-> "raised", publications |-> << >>]
_format_search_results(res) ==
    IF res.resultList.kind = "single"
    THEN Raised
    ELSE [kind |-> "formatted",
          publications |->
              [i \in 1..Len(res.resultList.items) |->
                  LET pub == res.resultList.items[i]
                  IN  [authors |-> _extract_authors(pub),
                       keywords |-> Keywords(pub),
                       mesh_terms |-> _extract_mesh_terms(pub)]]]

\* _format_search_results is applied to the search response.
Format ==
    /\ formatted = NotFormatted
    /\ formatted' = _format_search_results(raw_result)
    /\ UNCHANGED <<clientVars, matchVars, given_name, normalizations, raw_result>>

\* No search response has been given to _format_search_results.
FormatIdle ==
    /\ raw_result = [resultList |-> Absent]
    /\ formatted = NotFormatted

\* No name has been given to normalize_author_name.
PureIdle ==
    /\ given_name = << >>
    /\ normalizations = << >>
    /\ FormatIdle

\* No disambiguator call has been made.
MatchIdle ==
    /\ candidate_authors = << >>
    /\ publications = << >>
    /\ matches = << >>
    /\ disambiguated = << >>
    /\ matchPc = "idle"
    /\ rematch = NoRematch
    /\ written = {}

\* The disambiguator is not in use.
MatchUnused ==
    /\ target_author = EMPTY
    /\ threshold = 0
    /\ scores = [n \in NormalizedCandidates |-> <<0, 0, 0, 0>>]
    /\ MatchIdle

CallersIdle ==
    /\ pc = [c \in Callers |-> "idle"]
    /\ calls = [c \in Callers |-> 0]
    /\ attempt = [c \in Callers |-> 0]
    /\ timer = [c \in Callers |-> 0]
    /\ response = [c \in Callers |-> NoResponse]
    /\ result = [c \in Callers |-> NoResult]
    /\ headers = [c \in Callers |-> << >>]
    /\ value = [c \in Callers |-> NoValue]
    /\ cancelled = [c \in Callers |-> FALSE]
    /\ outcomes = [c \in Callers |-> << >>]
    /\ sent = [c \in Callers |-> 0]
    /\ permits = [c \in Callers |-> 0]
    /\ sleeps = [c \in Callers |-> << >>]

\* A freshly constructed client: the Throttler's log is empty.
Init ==
    /\ task_logs = << >>
    /\ others = MaxOthers
    /\ window = << >>
    /\ CallersIdle
    /\ granted = 0
    /\ elapsed = 0
    /\ ToolIdle
    /\ MatchUnused
    /\ PureIdle

\* The request executor: one tracked caller making calls one after the other,
\* the other callers seen only through the permits they take.
Next ==
    \/ \E c \in Callers : Begin(c)
    \/ \E c \in Callers : ThrottleRetry(c)
    \/ \E c \in Callers : RespondOk(c)
    \/ \E c \in Callers : RespondError(c)
    \/ \E c \in Callers : RespondNetworkError(c)
    \/ \E c \in Callers : BackoffWake(c)
    \/ \E c \in Callers : Cancel(c)
    \/ OtherBurst
    \/ Tick

Spec == Init /\ [][Next]_vars

\* The rate limiter: the tracked caller competes with MaxOthers other calls,
\* each acquiring at a moment of its own; every HTTP attempt is answered with JSON.
ThrottleNext ==
    \/ \E c \in Callers : Begin(c)
    \/ \E c \in Callers : ThrottleRetry(c)
    \/ \E c \in Callers : RespondJson(c)
    \/ OtherAcquire
    \/ Tick

\* The event loop runs every task whose sleep is over, and the clock advances.
ThrottleSpec ==
    /\ Init
    /\ [][ThrottleNext]_vars
    /\ WF_vars(Tick)
    /\ \A c \in Callers : WF_vars(ThrottleRetry(c))

\* The tool layer: one tool call, or one direct call of the full-text query
\* builder, on a fresh client that no other caller uses (so the Throttler has
\* room), and the _make_request call it leads to.
ToolNext ==
    \/ \E c \in Callers : CallTool(c)
    \/ \E c \in Callers : CallClient(c)
    \/ \E c \in Callers : RespondOk(c)
    \/ \E c \in Callers : RespondError(c)
    \/ \E c \in Callers : RespondNetworkError(c)
    \/ \E c \in Callers : BackoffWake(c)
    \/ \E c \in Callers : ToolReturn(c)
    \/ Tick

ToolSpec == Init /\ [][ToolNext]_vars

\* One caller on a client that no other caller uses: its permit is granted at
\* once, every HTTP attempt is answered (with a 2xx status, an error status or
\* a network error), every backoff sleep ends, and the clock advances.
ExecutorNext ==
    \/ \E c \in Callers : Begin(c)
    \/ \E c \in Callers : RespondOk(c)
    \/ \E c \in Callers : RespondError(c)
    \/ \E c \in Callers : RespondNetworkError(c)
    \/ \E c \in Callers : BackoffWake(c)
    \/ Tick

ExecutorSpec ==
    /\ Init
    /\ [][ExecutorNext]_vars
    /\ WF_vars(Tick)
    /\ \A c \in Callers :
          WF_vars(RespondOk(c) \/ RespondError(c) \/ RespondNetworkError(c))
    /\ \A c \in Callers : WF_vars(BackoffWake(c))

\* The disambiguator: a target name, a threshold and the similarity metrics are
\* given, and match_authors or disambiguate_author_publications is called once.
MatchInit ==
    /\ task_logs = << >>
    /\ others = 0
    /\ window = << >>
    /\ CallersIdle
    /\ granted = 0
    /\ elapsed = 0
    /\ ToolIdle
    /\ target_author \in TargetNames
    /\ threshold \in Thresholds
    /\ scores \in [NormalizedCandidates -> MetricTuples]
    /\ MatchIdle
    /\ PureIdle

MatchNext == CallMatchAuthors \/ CallDisambiguate

MatchSpec == MatchInit /\ [][MatchNext]_vars

\* The disambiguator called twice over: a call, then the same call at a
\* larger threshold.
RematchNext ==
    \/ CallMatchAuthors
    \/ CallDisambiguate
    \/ RecallMatchAuthors
    \/ RecallDisambiguate

RematchSpec == MatchInit /\ [][RematchNext]_vars

\* Name normalization: a name is given and normalized twice over.
NormalizeInit ==
    /\ task_logs = << >>
    /\ others = 0
    /\ window = << >>
    /\ CallersIdle
    /\ granted = 0
    /\ elapsed = 0
    /\ ToolIdle
    /\ MatchUnused
    /\ given_name \in Lists(NameAlphabet, MaxNameLen)
    /\ normalizations = << >>
    /\ FormatIdle

NormalizeSpec == NormalizeInit /\ [][Normalize]_vars

\* Result formatting: a search response is given and formatted.
FormatInit ==
    /\ task_logs = << >>
    /\ others = 0
    /\ window = << >>
    /\ CallersIdle
    /\ granted = 0
    /\ elapsed = 0
    /\ ToolIdle
    /\ MatchUnused
    /\ given_name = << >>
    /\ normalizations = << >>
    /\ raw_result \in RawResults
    /\ formatted = NotFormatted

FormatSpec == FormatInit /\ [][Format]_vars

\* -------------------------------------------------------------- burst scenario
\* BurstCalls calls are issued together (asyncio.gather) on a fresh client and
\* every waiting call re-tests the Throttler at each retry_interval: the
\* fastest schedule the Throttler allows.  One tick is one retry_interval.
BurstInit ==
    /\ task_logs = << >>
    /\ others = BurstCalls
    /\ window = << >>
    /\ CallersIdle
    /\ granted = 0
    /\ elapsed = 0
    /\ ToolIdle
    /\ MatchUnused
    /\ PureIdle

\* A waiting call finds room and takes its permit.
BurstAcquire ==
    /\ others > 0
    /\ HasRoom(task_logs, BurstPeriodTicks)
    /\ task_logs' = Grant(task_logs, BurstPeriodTicks)
    /\ others' = others - 1
    /\ granted' = granted + 1
    /\ UNCHANGED <<window, callerVars, elapsed, toolVars, matchVars, pureVars>>

\* Every waiting call has flushed, found no room and sleeps retry_interval.
BurstSleep ==
    /\ others > 0
    /\ ~HasRoom(task_logs, BurstPeriodTicks)
    /\ task_logs' = Age(Flush(task_logs, BurstPeriodTicks), BurstPeriodTicks)
    /\ elapsed' = elapsed + 1
    /\ UNCHANGED <<others, window, callerVars, granted, toolVars, matchVars, pureVars>>

BurstNext == BurstAcquire \/ BurstSleep

BurstSpec == BurstInit /\ [][BurstNext]_vars

\* ----------------------------------------------------------------- properties
NonRetryable == {s \in ErrorStatuses : s # 429 /\ s < 500}

C2_NoSleepAfterLastAttempt ==
    \A c \in Callers :
        /\ pc[c] = "backoff" => AttemptsRemain(attempt[c])
        /\ (pc[c] = "failed" /\ AllAre(outcomes[c], 429))
               => (sent[c] = MAX_RETRIES /\ sleeps[c] = <<1, 2>>)

\* C3: an error status that is neither 429 nor 5xx ends the call at once,
\* whatever the attempt index: the call has failed with the status code and
\* the body of that response, no sleep follows it and no attempt follows it.
C3_NonRetryableFailsAtOnce ==
    \A c \in Callers :
        (outcomes[c] # << >> /\ Last(outcomes[c]) \in NonRetryable)
            => /\ pc[c] = "failed"
               /\ response[c].status = Last(outcomes[c])
               /\ result[c] = [kind |-> "http_status",
                               status |-> response[c].status,
                               body |-> response[c].body]
               /\ sent[c] = Len(outcomes[c])
               /\ Len(sleeps[c]) = Len(outcomes[c]) - 1

C3_Witness ==
    \E c \in Callers :
        /\ pc[c] = "failed"
        /\ outcomes[c] = <<503, 404>>
        /\ result[c].body = "b2"

\* C4: a call whose attempts all fail at network level makes exactly
\* MAX_RETRIES attempts, sleeps 1 s then 2 s between them, does not sleep after
\* the last one and fails with the request error.
C4_NetworkErrorsExhaust ==
    \A c \in Callers :
        AllAre(outcomes[c], NetworkError)
            => /\ pc[c] = "failed"
                    => /\ sent[c] = MAX_RETRIES
                       /\ sleeps[c] = <<1, 2>>
                       /\ result[c].kind = "request_failed"
               /\ pc[c] = "backoff"
                    => /\ Len(sleeps[c]) = Len(outcomes[c])
                       /\ Last(sleeps[c]) = Pow2(Len(outcomes[c]) - 1)
                       /\ timer[c] <= Last(sleeps[c]) * PeriodTicks

C4_Witness ==
    \E c \in Callers :
        /\ pc[c] = "failed"
        /\ outcomes[c] = <<NetworkError, NetworkError, NetworkError>>

\* C5: whatever the attempts answer, a call sends at most MAX_RETRIES attempts
\* and a finished call has sent at least one; the attempt index belongs to the
\* call: the attempt in flight is number sent - 1 of this call, so every call
\* starts at attempt 0.
C5_AttemptsBounded ==
    \A c \in Callers :
        /\ sent[c] <= MAX_RETRIES
        /\ pc[c] \in {"returned", "failed"} => sent[c] >= 1
        /\ pc[c] \in {"http", "backoff"} => attempt[c] = sent[c] - 1

C5_Witness ==
    \E c \in Callers : calls[c] = 2 /\ pc[c] = "failed" /\ sent[c] = MAX_RETRIES

\* C6: every HTTP attempt has its own permit: a call has consumed as many
\* permits as it has sent HTTP attempts.
C6_PermitPerAttempt ==
    \A c \in Callers : permits[c] = sent[c]

\* C7: at most RATE_LIMIT_REQUESTS_PER_SECOND permits are granted in any window
\* of one period, and the Throttler's log holds exactly the permits granted in
\* the last period, each once.
C7_RateBound ==
    /\ Len(window) <= RATE_LIMIT_REQUESTS_PER_SECOND
    /\ Flush(task_logs, PeriodTicks) = window

C7_Witness ==
    /\ Len(window) = RATE_LIMIT_REQUESTS_PER_SECOND
    /\ \E c \in Callers : pc[c] = "throttle_sleep" /\ calls[c] = 2

C9_NeverRejectedEventuallyGranted ==
    /\ [][\A c \in Callers :
            (pc[c] \in {"idle", "returned", "failed", "throttle_sleep"} /\ pc'[c] # pc[c])
                => pc'[c] \in {"http", "throttle_sleep"}]_vars
    /\ \A c \in Callers : (pc[c] = "throttle_sleep") ~> (pc[c] = "http" /\ permits[c] = 1)

C9_Witness ==
    \E c \in Callers : pc[c] = "throttle_sleep" /\ others > 0 /\ others < MaxOthers

\* C10: a call cancelled while it waits for a permit or sleeps in backoff is
\* aborted: it stays cancelled, no HTTP attempt is sent in or after the
\* cancellation, the cancelling step writes nothing to the Throttler, and a
\* call cancelled in the permit wait has taken no permit.
C10_CancelAborts ==
    /\ [](\A c \in Callers :
            cancelled[c]
                => /\ pc[c] = "cancelled"
                   /\ result[c].body = "throttle_sleep" => (permits[c] = 0 /\ sent[c] = 0))
    /\ [][\A c \in Callers :
            cancelled'[c]
                => /\ sent'[c] = sent[c]
                   /\ ~cancelled[c] => (task_logs' = task_logs /\ permits' = permits)]_vars

C10_Witness ==
    \E c \in Callers :
        /\ pc[c] = "cancelled"
        /\ result[c].body = "throttle_sleep"
        /\ Len(task_logs) = ThrottlerRate

\* The failures _make_request retries: 429, 5xx and httpx.RequestError.
Retryable == {s \in ErrorStatuses : s = 429 \/ s >= 500} \cup {NetworkError}

\* C11: a retryable failure followed by a successful attempt is not surfaced:
\* the call ends with the 2xx attempt, which is its last attempt, and returns
\* that response unless its body cannot be decoded; a call that fails on a
\* retryable outcome has used all MAX_RETRIES attempts; and only a call whose
\* last attempt answered 2xx returns a value.
C11_RetriedFailureNotSurfaced ==
    \A c \in Callers :
        /\ \A i \in 1..Len(outcomes[c]) :
              outcomes[c][i] = OkStatus =>
                /\ i = Len(outcomes[c])
                /\ sent[c] = i
                /\ \A j \in 1..(i - 1) : outcomes[c][j] \in Retryable
                /\ \/ /\ pc[c] = "returned"
                      /\ result[c] = [kind |-> "ok", status |-> OkStatus,
                                      body |-> response[c].body]
                      /\ value[c].content = response[c].body
                   \/ /\ pc[c] = "failed"
                      /\ result[c].kind = "decode_error"
        /\ (pc[c] = "failed" /\ outcomes[c] # << >> /\ Last(outcomes[c]) \in Retryable)
              => (sent[c] = MAX_RETRIES /\ Len(outcomes[c]) = MAX_RETRIES)
        /\ (pc[c] = "returned" \/ result[c].kind = "ok" \/ value[c] # NoValue)
              => (/\ pc[c] = "returned"
                  /\ result[c].kind = "ok"
                  /\ outcomes[c] # << >>
                  /\ Last(outcomes[c]) = OkStatus)

\* A 429 and a network error were retried and the third attempt succeeded.
C11_Witness ==
    \E c \in Callers :
        /\ pc[c] = "returned"
        /\ outcomes[c] = <<429, NetworkError, OkStatus>>
        /\ sleeps[c] = <<1, 2>>
        /\ result[c].kind = "ok"

\* The headers that declare a JSON type, an XML type, or neither.
JsonHeaders == {APPLICATION_JSON, APPLICATION_JSON \o CHARSET_UTF8}
XmlHeaders == {APPLICATION_XML, TEXT_XML \o CHARSET_UTF8, TEXT_XML_CAPS}

\* What a returned call must have returned when the raw-text mapping carries
\* the content type "shown".
ResultByContentType(c, shown) ==
    IF headers[c] \in JsonHeaders
    THEN value[c] = [form |-> "json", content |-> response[c].body,
                     content_type |-> << >>]
    ELSE IF headers[c] \in XmlHeaders
         THEN value[c] = [form |-> "xml", content |-> response[c].body,
                          content_type |-> << >>]
         ELSE value[c] = [form |-> "raw", content |-> response[c].body,
                          content_type |-> shown]

\* C12 (as stated): a returned call returned the decoded JSON for a JSON type,
\* the decoded XML for an XML type, and otherwise the two-field mapping of the
\* raw body text and the content-type string as the response declared it.
C12_DeclaredTypeReturned ==
    \A c \in Callers :
        pc[c] = "returned" => ResultByContentType(c, headers[c])

\* C12 (amended): as above, but the mapping carries the declared content type
\* converted to lower case (empty when the header is missing); a 2xx response
\* that does not return is a JSON or XML response whose body failed to decode.
C12_LowerCasedTypeReturned ==
    \A c \in Callers :
        /\ pc[c] = "returned" => ResultByContentType(c, Lower(headers[c]))
        /\ result[c].kind = "decode_error" => headers[c] \in JsonHeaders \cup XmlHeaders

\* A text/html response with an upper-case charset was returned as raw text.
C12_Witness ==
    \E c \in Callers :
        /\ pc[c] = "returned"
        /\ headers[c] = TEXT_HTML \o CHARSET_UTF8
        /\ value[c].form = "raw"
        /\ value[c].content_type # headers[c]

\* No permit was taken and no HTTP request was sent on behalf of the call.
NoNetworkCall ==
    /\ task_logs = << >>
    /\ params = NoParams
    /\ \A c \in Callers : pc[c] = "idle" /\ permits[c] = 0 /\ sent[c] = 0

\* A full-text request with both arguments present and a source other than PMC.
NonPmcFullText(entry) ==
    /\ request.entry = entry
    /\ request.name \in {"get_full_text", "get_full_text_xml"}
    /\ {"source", "identifier"} \subseteq request.arguments.given
    /\ request.arguments.source \notin {"", "PMC"}
    /\ request.arguments.identifier # ""

UnsupportedSource ==
    [isError |-> TRUE, text |-> "Error: Full text is only available for PMC articles"]

RequestedPageSize ==
    LET page_size == IF "page_size" \in request.arguments.given
                     THEN request.arguments.page_size
                     ELSE DEFAULT_PAGE_SIZE
    IN  IF request.name = "search_author_publications"
        THEN page_size + page_size
        ELSE page_size

\* C14: every search, citations and references request that reaches
\* _make_request carries pageSize = min(requested page size, 1000), at most
\* 1000, where the author search requests twice the caller's page size.
C14_PageSizeClamped ==
    (toolPc # "idle" /\ params # NoParams
        /\ request.name \in {"search_publications", "advanced_search", "get_citations",
                              "get_references", "search_author_publications"})
        => /\ params.has_page_size
           /\ params.pageSize <= MAX_PAGE_SIZE
           /\ params.pageSize = IF RequestedPageSize > MAX_PAGE_SIZE
                                 THEN MAX_PAGE_SIZE
                                 ELSE RequestedPageSize

\* An author search with page_size 501 asked for 1002 results; 1000 were
\* requested from the service and the response has arrived.
C14_Witness ==
    /\ request.name = "search_author_publications"
    /\ request.arguments.page_size = 501
    /\ params.pageSize = MAX_PAGE_SIZE
    /\ toolPc = "done"
    /\ \E c \in Callers : sent[c] >= 1

\* The inputs each tool requires.
RequiredKeys(name) ==
    IF name \in {"search_publications", "advanced_search"}
    THEN {"query"}
    ELSE IF name = "search_author_publications"
         THEN {"author_name"}
         ELSE {"source", "identifier"}

RequiredInputMissing ==
    /\ request.entry = "tool"
    /\ request.name \in ToolNames
    /\ \E k \in RequiredKeys(request.name) :
          k \notin request.arguments.given \/ request.arguments[k] = ""

\* C15: a tool call with a missing or empty required input has returned an
\* error result, and no permit was taken and no HTTP request was sent.
C15_MissingInputRejected ==
    RequiredInputMissing
        => (toolPc = "done" /\ toolResult.isError /\ NoNetworkCall)

\* get_citations was called with a source and an empty identifier.
C15_Witness ==
    /\ RequiredInputMissing
    /\ request.name = "get_citations"
    /\ request.arguments.source = "MED"
    /\ "identifier" \in request.arguments.given
    /\ toolPc = "done"
    /\ toolResult = [isError |-> TRUE, text |-> "Error: Source and identifier are required"]

\* C16 (as stated): a disambiguator call whose target name is empty or
\* whitespace-only is refused: it never returns a list of matches.
C16_BlankTargetRefused ==
    Split(target_author) = << >> => matchPc \notin {"matched", "disambiguated"}

\* The score the specification gives a candidate: the largest of the four
\* metrics, plus 10 when the initials of the two names as given are equal,
\* clipped to 100.
ClaimedScore(candidate) ==
    LET m == scores[normalize_author_name(candidate)]
        largest == CHOOSE x \in {m[1], m[2], m[3], m[4]} :
                       \A y \in {m[1], m[2], m[3], m[4]} : x >= y
        b == IF extract_initials(target_author) = extract_initials(candidate)
             THEN 10 ELSE 0
    IN  IF largest + b > 100 THEN 100 ELSE largest + b

\* The candidates match_authors returned.
Returned == {matches[j][1] : j \in 1..Len(matches)}

\* C17 (as stated): match_authors returns a candidate if and only if its score
\* clipped to [0,100] is at least the threshold, whatever the threshold.
C17_ClipThenCompare ==
    matchPc = "matched" =>
        \A i \in 1..Len(candidate_authors) :
            candidate_authors[i] \in Returned
                <=> ClaimedScore(candidate_authors[i]) >= threshold

\* C18 (as stated): every publication disambiguate_author_publications returns
\* has a non-empty author_matches holding a match whose score is at least the
\* threshold, and its best_match_score is the largest score in author_matches.
C18_SurfacedHasQualifyingMatch ==
    matchPc = "disambiguated" =>
        \A i \in 1..Len(disambiguated) :
            LET found == disambiguated[i].author_matches
            IN  /\ found # << >>
                /\ \E j \in 1..Len(found) : found[j][2] >= threshold
                /\ \E j \in 1..Len(found) : found[j][2] = disambiguated[i].best_match_score
                /\ \A j \in 1..Len(found) : found[j][2] <= disambiguated[i].best_match_score

\* C19: every score match_authors reports, and so every score in an
\* author_matches list and every best_match_score, lies in 0..100.
C19_ScoresWithinRange ==
    /\ \A j \in 1..Len(matches) : matches[j][2] \in 0..100
    /\ \A i \in 1..Len(disambiguated) :
          /\ disambiguated[i].best_match_score \in 0..100
          /\ \A j \in 1..Len(disambiguated[i].author_matches) :
                disambiguated[i].author_matches[j][2] \in 0..100

\* A candidate with the target's initials and a largest metric of 95 was
\* returned with the score 100.
C19_Witness ==
    /\ matchPc = "matched"
    /\ target_author = JO_S
    /\ scores[normalize_author_name(JO_S)] = <<85, 95, 90, 92>>
    /\ \E j \in 1..Len(matches) : matches[j] = <<JO_S, 100>>

C21_NormalizeIdempotent ==
    /\ Len(normalizations) = 2 => normalizations[2] = normalizations[1]
    /\ \A k \in 1..Len(normalizations) :
          LET r == normalizations[k]
          IN  /\ \A i \in 1..Len(r) : ~IsUpper(r[i])
              /\ r # << >> => (r[1] # " " /\ r[Len(r)] # " ")
              /\ \A i \in 1..(Len(r) - 1) : ~(r[i] = " " /\ r[i + 1] = " ")
              /\ \A i \in 1..Len(Split(r)) : Split(r)[i] \notin Suffixes

\* "Dr x" was normalized to "x", and "x" to "x".
C21_Witness ==
    /\ given_name = <<"D", "r", " ", "x">>
    /\ normalizations = << <<"x">>, <<"x">> >>

\* s can be had from t by leaving elements out.
RECURSIVE IsSubsequence(_, _)
IsSubsequence(s, t) ==
    IF s = << >> THEN TRUE
    ELSE IF t = << >> THEN FALSE
    ELSE IF Head(s) = Head(t) THEN IsSubsequence(Tail(s), Tail(t))
    ELSE IsSubsequence(s, Tail(t))

\* The publications of a result of disambiguate_author_publications, in order.
PublicationsOf(found) == [i \in 1..Len(found) |-> found[i].pub]

\* C22: for the same target and input, the output of match_authors and of
\* disambiguate_author_publications at a threshold t2 >= t1 is no longer than
\* the output at t1 and holds only members of it: the pairs, and the
\* publications, of the second output are the first output with elements left
\* out, and each publication's matches are among those it had at t1.
C22_MonotoneInThreshold ==
    matchPc = "rematched" =>
        /\ Len(rematch.matches) <= Len(matches)
        /\ IsSubsequence(rematch.matches, matches)
        /\ Len(rematch.disambiguated) <= Len(disambiguated)
        /\ IsSubsequence(PublicationsOf(rematch.disambiguated), PublicationsOf(disambiguated))
        /\ \A i \in 1..Len(rematch.disambiguated) :
              \E j \in 1..Len(disambiguated) :
                 /\ disambiguated[j].pub = rematch.disambiguated[i].pub
                 /\ IsSubsequence(rematch.disambiguated[i].author_matches,
                                  disambiguated[j].author_matches)

\* Two candidates passed the threshold 80 and one of them is left at 100; and
\* two publications passed 80 and one of them is left at 100.
C22_Witness ==
    /\ matchPc = "rematched"
    /\ threshold = 80
    /\ rematch.threshold = 100
    /\ \/ Len(matches) = 2 /\ Len(rematch.matches) = 1
       \/ Len(disambiguated) = 2 /\ Len(rematch.disambiguated) = 1

\* C23: the list disambiguate_author_publications returns is in non-increasing
\* order of best_match_score, and the publications returned with one and the
\* same best_match_score stand in the order they have in the input list.
C23_SortedStable ==
    matchPc = "disambiguated" =>
        /\ \A i \in 1..(Len(disambiguated) - 1) :
              disambiguated[i].best_match_score >= disambiguated[i + 1].best_match_score
        /\ \A v \in {disambiguated[i].best_match_score : i \in 1..Len(disambiguated)} :
              PublicationsOf(SelectSeq(disambiguated, LAMBDA d : d.best_match_score = v))
                = SelectSeq(publications, LAMBDA p :
                      \E j \in 1..Len(disambiguated) :
                         /\ disambiguated[j].pub = p
                         /\ disambiguated[j].best_match_score = v)

\* Two different publications were returned with the same best_match_score,
\* in the order of the input.
C23_Witness ==
    /\ matchPc = "disambiguated"
    /\ Len(publications) = 2
    /\ Len(disambiguated) = 2
    /\ disambiguated[1].pub # disambiguated[2].pub
    /\ disambiguated[1].best_match_score = disambiguated[2].best_match_score
    /\ PublicationsOf(disambiguated) = publications

\* The number of positions of the sequence s that hold x.
Occurrences(s, x) == Cardinality({i \in 1..Len(s) : s[i] = x})

\* C24 (as stated): match_authors returns exactly the candidates whose score
\* qualifies at the threshold, each occurrence once, paired with their scores
\* and in non-increasing order of score; no other candidate is returned, and
\* an empty candidate list gives an empty list.
C24_ExactlyQualifying ==
    matchPc = "matched" =>
        /\ \A i \in 1..Len(candidate_authors) :
              LET cand == candidate_authors[i]
              IN  Occurrences(matches, <<cand, ClaimedScore(cand)>>)
                    = IF ClaimedScore(cand) >= threshold
                      THEN Occurrences(candidate_authors, cand)
                      ELSE 0
        /\ \A j \in 1..Len(matches) :
              /\ \E i \in 1..Len(candidate_authors) : candidate_authors[i] = matches[j][1]
              /\ matches[j][2] = ClaimedScore(matches[j][1])
        /\ \A j \in 1..(Len(matches) - 1) : matches[j][2] >= matches[j + 1][2]
        /\ candidate_authors = << >> => matches = << >>

\* The author names of a publication that qualify: their score is at least
\* the threshold.
QualifyingAuthors(pub) ==
    SelectSeq(PubAuthors(pub), LAMBDA n : ClaimedScore(n) >= threshold)

\* C25 (as stated): disambiguate_author_publications keeps a publication if
\* and only if at least one of its author names qualifies, the names being
\* those of the authorList and, only when that yields no name, those of the
\* "authors" field; a kept publication carries one author_matches entry for
\* each qualifying author name; nothing else is returned.
C25_KeptIffAuthorQualifies ==
    matchPc = "disambiguated" =>
        /\ \A i \in 1..Len(publications) :
              LET pub == publications[i]
              IN  Occurrences(PublicationsOf(disambiguated), pub)
                    = IF QualifyingAuthors(pub) # << >>
                      THEN Occurrences(publications, pub)
                      ELSE 0
        /\ \A j \in 1..Len(disambiguated) :
              LET d == disambiguated[j]
              IN  /\ Occurrences(publications, d.pub) > 0
                  /\ Len(d.author_matches) = Len(QualifyingAuthors(d.pub))
                  /\ \A k \in 1..Len(d.author_matches) :
                        Occurrences([m \in 1..Len(d.author_matches) |-> d.author_matches[m][1]],
                                    d.author_matches[k][1])
                          = Occurrences(QualifyingAuthors(d.pub), d.author_matches[k][1])

\* C26: disambiguate_author_publications does not change its input: none of
\* the mappings of the input list (numbered 1..Len(publications)) is written
\* to, every write goes to a copy, one for each publication returned.
C26_InputNotMutated ==
    matchPc = "disambiguated" =>
        /\ written \cap (1..Len(publications)) = {}
        /\ Cardinality(written) = Len(disambiguated)

\* Both publications of the input were kept, and two copies were written to.
C26_Witness ==
    /\ matchPc = "disambiguated"
    /\ Len(publications) = 2
    /\ Len(disambiguated) = 2
    /\ written = {3, 4}

\* The objects of a sub-structure, whether it came as one object or as a list.
ObjectsOf(data) == data.items

\* C27 (as stated): in every formatted search result the author list, the
\* keyword list and the mesh-heading list of a publication are sequences
\* holding the objects of the response, whether the response carried them as
\* a single object or as a list; and the result list is coerced likewise, so
\* a response with a single result is formatted as one publication.
C27_SubStructuresCoerced ==
    formatted # NotFormatted =>
        /\ formatted.kind = "formatted"
        /\ Len(formatted.publications) = Len(ObjectsOf(raw_result.resultList))
        /\ \A i \in 1..Len(formatted.publications) :
              LET pub == ObjectsOf(raw_result.resultList)[i]
                  out == formatted.publications[i]
              IN  /\ out.authors = ListOf(ObjectsOf(pub.authorList))
                  /\ out.keywords = ListOf(ObjectsOf(pub.keywordList))
                  /\ out.mesh_terms = ListOf(ObjectsOf(pub.meshHeadingList))

\* C28 (as stated): when a search_author_publications call omits
\* disambiguation_threshold, the threshold the handler disambiguates with and
\* echoes in its result is the default of the tool's input schema, 80, which
\* is also the default of match_authors and disambiguate_author_publications.
C28_SchemaDefaultApplied ==
    ( /\ toolPc = "done"
      /\ request.entry = "tool"
      /\ request.name = "search_author_publications"
      /\ ~toolResult.isError
      /\ "disambiguation_threshold" \notin request.arguments.given )
        => /\ author_search.threshold = SCHEMA_DEFAULT_THRESHOLD
           /\ author_search.echoed = SCHEMA_DEFAULT_THRESHOLD
           /\ SCHEMA_DEFAULT_THRESHOLD = DISAMBIGUATOR_DEFAULT_THRESHOLD

\* C29: every _make_request call terminates: once its permit is granted (the
\* call is in an HTTP attempt or a backoff sleep), and as long as every HTTP
\* attempt and every backoff sleep completes, the call eventually returns a
\* response or raises an error, whatever the outcomes of its attempts.
C29_CallTerminates ==
    \A c \in Callers :
        (pc[c] \in {"http", "backoff"}) ~> (pc[c] \in {"returned", "failed"})

\* The last attempt was answered 429: the call slept once more and raised
\* "Failed after MAX_RETRIES attempts".
C29_Witness ==
    \E c \in Callers :
        /\ pc[c] = "failed"
        /\ result[c].kind = "failed_after"
        /\ Len(outcomes[c]) = MAX_RETRIES
        /\ Last(outcomes[c]) = 429
        /\ Len(sleeps[c]) = MAX_RETRIES

\* C30: handle_call_tool ends every call with a CallToolResult, whatever the
\* tool name and the arguments: the result has isError set exactly when the
\* operation failed (the input was refused, the name is unknown, the client
\* raised, or the handler's processing raised), it then carries the error
\* message, and a successful result is only given for a call whose client
\* request returned.
C30_FailureReportedAsError ==
    (toolPc = "done" /\ request.entry = "tool") =>
        LET handled == handle_call_tool(request.name, request.arguments)
        IN  /\ toolResult.isError <=> (handled.rejected \/ handler_error # "none")
            /\ toolResult.isError => toolResult.text \notin {"", "result"}
            /\ request.name \notin ToolNames =>
                  (toolResult = [isError |-> TRUE, text |-> "Error: Unknown tool"]
                     /\ handler_error = "ValueError")
            /\ \A c \in Callers :
                  /\ pc[c] = "failed" =>
                        toolResult = [isError |-> TRUE, text |-> result[c].kind]
                  /\ ~toolResult.isError =>
                        (pc[c] = "returned" /\ toolResult.text = "result")

\* The client's request failed after its retries, and the tool call ended
\* with an error result carrying that failure.
C30_Witness ==
    /\ toolPc = "done"
    /\ request.entry = "tool"
    /\ request.name = "search_publications"
    /\ pc[1] = "failed"
    /\ result[1].kind = "failed_after"
    /\ handler_error = "EuropePMCError"
    /\ toolResult = [isError |-> TRUE, text |-> "failed_after"]

====
